---- MODULE Spec2Model ----
(***************************************************************************)
(* Model of bootstrap.py's cache-gated Executor (the run-info file of a    *)
(* Runnable, the match evaluation, the run/skip decision and the save) and *)
(* of the list functions of tests/test_lists.py.                           *)
(***************************************************************************)
EXTENDS Integers, Sequences, FiniteSets, TLC

\* ---------------------------------------------------------------- bounds
\* File contents are the byte strings ContentBytes[1..MaxContent].
MaxContent == 2
\* The action's exit codes are 0..MaxExit.
MaxExit == 1
\* Lists of numbers have 1..MaxLen elements drawn from -MaxAbs..MaxAbs, or
\* are up to MaxRun times one such number followed by up to MaxRun times
\* another.
MaxLen == 3
MaxAbs == 2
MaxRun == 7

\* ------------------------------------------------------------ the world
Paths == {"a.txt", "b.txt"}
Names == {"U", "V"}

ContentBytes == <<"1", "2", "3", "4", "5">>
Contents == {ContentBytes[i] : i \in 1..MaxContent}
\* What the filesystem holds at a path: no file, or a file with these bytes.
Absent == "<absent>"
FileStates == Contents \cup {Absent}
FileSystems == [Paths -> FileStates]

ExitCodes == 0..MaxExit

\* get_inputs() / get_outputs(): a list of paths.
PathLists == {<<>>} \cup {<<p>> : p \in Paths}
\* A Runnable as execute() sees it: get_name(), get_inputs(), get_outputs().
Runnables == [name : Names, inputs : PathLists, outputs : PathLists]

VARIABLES
    fs,        \* the filesystem: path -> bytes of the file, or Absent
    records,   \* the cache directory: name -> the file <name>.deps.json
    last,      \* the execute() call that has just completed, if any
    prior,     \* name -> how the latest execute() on it returned, while the
               \* recorded files and the record are untouched since; "none"
               \* when it raised, or something was touched, or before any call
    runs,      \* name -> the declared files at the end of the runs that saved
    numbers,   \* test_lists: the argument list
    called,    \* test_lists: the function that was applied
    result     \* test_lists: <<value returned>>, or <<>> before the call

vars == <<fs, records, last, prior, runs, numbers, called, result>>
execVars == <<fs, records, last, prior, runs>>
listVars == <<numbers, called, result>>

\* ------------------------------------------------------------- hashing
\* hashlib.sha256(bytes).hexdigest() of the modelled byte strings.
hexdigest(bytes) ==
    CASE bytes = "1" -> "6b86b273ff34fce19d6b804eff5a3f5747ada4eaa22f1d49c01e52ddb7875b4b"
      [] bytes = "2" -> "d4735e3a265e16eee03f59718b9b5d03019c07d8b6c51f90da3a666eec13ab35"
      [] bytes = "3" -> "4e07408562bedb8b60ce05c1decfe3ad16b72230967de01f640b7e4729b49fce"
      [] bytes = "4" -> "4b227777d4dd1fc61c6f884f48641d02b4d121d3fd328cb08b5531fcacdabf8a"
      [] bytes = "5" -> "ef2d127de37b942baad06145e54b0c619a1f22327b2ebbcfbec78f5564afe39d"

\* Path.exists()
exists(f, path) == f[path] # Absent

\* A get_file_hash that digests the same bytes whatever the file holds.
get_file_hash_constant(f, path) == hexdigest(ContentBytes[1])

\* Executor.get_file_hash: open() raises FileNotFoundError on a missing file,
\* so this is only applied where the file exists.
get_file_hash(f, path) == hexdigest(f[path])

\* ------------------------------------------------------ the run-info file
\* {str(path): get_file_hash(path) for path in paths}: a dict keeps its keys
\* in first-insertion order and a repeated key keeps its place.
HasKey(d, path) == \E i \in 1..Len(d) : d[i].path = path

RECURSIVE DictOf(_, _, _, _)
DictOf(f, paths, k, d) ==
    IF k > Len(paths) THEN d
    ELSE LET e == [path |-> paths[k], hash |-> get_file_hash(f, paths[k])]
         IN  DictOf(f, paths, k + 1,
                    IF HasKey(d, paths[k])
                    THEN [i \in 1..Len(d) |-> IF d[i].path = paths[k] THEN e ELSE d[i]]
                    ELSE Append(d, e))

\* What <name>.deps.json can be: not there, the JSON object that
\* store_run_info wrote, or bytes that json.load cannot parse, of which there
\* are four kinds by the error json.load ends with.
NoFile == [kind |-> "absent", inputs |-> <<>>, outputs |-> <<>>]
CorruptFile == [kind |-> "corrupt", inputs |-> <<>>, outputs |-> <<>>]
\* The file is opened in text mode: bytes that are not UTF-8 cannot even be
\* decoded.
UndecodableFile == [kind |-> "undecodable", inputs |-> <<>>, outputs |-> <<>>]
\* Text nested deeper than the parser's recursion goes, closed or not.
TooDeepFile == [kind |-> "too_deep", inputs |-> <<>>, outputs |-> <<>>]
\* Text with an integer literal of more digits than int() converts (4300).
OverlongFile == [kind |-> "too_long", inputs |-> <<>>, outputs |-> <<>>]
UnparsableFiles == {CorruptFile, UndecodableFile, TooDeepFile, OverlongFile}

\* What json.load(f) raises on the file, "" when it parses.
load_raises(file) ==
    CASE file.kind = "corrupt" -> "JSONDecodeError"
      [] file.kind = "undecodable" -> "UnicodeDecodeError"
      [] file.kind = "too_deep" -> "RecursionError"
      [] file.kind = "too_long" -> "ValueError"
      [] OTHER -> ""

\* A file_info that leaves the outputs out.
file_info_no_outputs(f, r) ==
    [kind |-> "json",
     inputs |-> DictOf(f, r.inputs, 1, <<>>),
     outputs |-> <<>>]

\* Executor.store_run_info: file_info, as json.dump writes it.
file_info(f, r) ==
    [kind |-> "json",
     inputs |-> DictOf(f, r.inputs, 1, <<>>),
     outputs |-> DictOf(f, r.outputs, 1, <<>>)]

\* store_run_info raises (FileNotFoundError from get_file_hash) before it
\* opens the run-info file when a declared path is missing.
store_raises(f, r) ==
    \/ \E i \in 1..Len(r.inputs) : ~exists(f, r.inputs[i])
    \/ \E i \in 1..Len(r.outputs) : ~exists(f, r.outputs[i])

\* The run-info files after store_run_info raised: file_info is built before
\* the file is opened, so they are as run() left them.
store_run_info_raised(recs, r) == recs

\* A store_run_info that removes the run-info file instead of writing it.
store_run_info_removes(f, recs, r) == [recs EXCEPT ![r.name] = NoFile]

\* A store_run_info that writes nothing.
store_run_info_noop(f, recs, r) == recs

\* A store_run_info that updates the dictionaries of the record it finds.
store_run_info_merge(f, recs, r) ==
    [recs EXCEPT ![r.name] =
        [kind |-> "json",
         inputs |-> DictOf(f, r.inputs, 1, recs[r.name].inputs),
         outputs |-> DictOf(f, r.outputs, 1, recs[r.name].outputs)]]

store_run_info(f, recs, r) ==
    [recs EXCEPT ![r.name] = file_info(f, r)]

\* A reading of the run-info file that takes an unparsable one for none.
get_runnable_run_info_file_lenient(recs, r) ==
    IF recs[r.name] \in UnparsableFiles THEN NoFile ELSE recs[r.name]

\* Executor.get_runnable_run_info_file: one file per name.
get_runnable_run_info_file(recs, r) == recs[r.name]

\* ------------------------------------------------------- match evaluation
\* A RunInfoStatus whose NO_INFO does not ask for a run.
should_run_not_on_no_info(status) ==
    CASE status = "MATCH" -> FALSE
      [] status = "NO_INFO" -> FALSE
      [] status = "FILE_NOT_FOUND" -> TRUE
      [] status = "FILE_CHANGED" -> TRUE

\* A RunInfoStatus whose MATCH asks for a run.
should_run_on_match(status) == TRUE

\* RunInfoStatus: the should_run flag of each member.
should_run(status) ==
    CASE status = "MATCH" -> FALSE
      [] status = "NO_INFO" -> TRUE
      [] status = "FILE_NOT_FOUND" -> TRUE
      [] status = "FILE_CHANGED" -> TRUE

\* A loop that takes an equal hash for a change.
RECURSIVE scan_inverted(_, _, _)
scan_inverted(f, d, k) ==
    IF k > Len(d) THEN ""
    ELSE IF ~exists(f, d[k].path) THEN "FILE_NOT_FOUND"
    ELSE IF get_file_hash(f, d[k].path) = d[k].hash THEN "FILE_CHANGED"
    ELSE scan_inverted(f, d, k + 1)

\* A loop that does not compare the hashes.
RECURSIVE scan_ignores_hash(_, _, _)
scan_ignores_hash(f, d, k) ==
    IF k > Len(d) THEN ""
    ELSE IF ~exists(f, d[k].path) THEN "FILE_NOT_FOUND"
    ELSE scan_ignores_hash(f, d, k + 1)

\* A loop that passes over a recorded file that is gone.
RECURSIVE scan_ignores_missing(_, _, _)
scan_ignores_missing(f, d, k) ==
    IF k > Len(d) THEN ""
    ELSE IF ~exists(f, d[k].path) THEN scan_ignores_missing(f, d, k + 1)
    ELSE IF get_file_hash(f, d[k].path) # d[k].hash THEN "FILE_CHANGED"
    ELSE scan_ignores_missing(f, d, k + 1)

\* The inner loop of previous_run_info_matches over one recorded dict, from
\* entry k on: the status it returns, or "" when the loop runs to its end.
RECURSIVE scan(_, _, _)
scan(f, d, k) ==
    IF k > Len(d) THEN ""
    ELSE IF ~exists(f, d[k].path) THEN "FILE_NOT_FOUND"
    ELSE IF get_file_hash(f, d[k].path) # d[k].hash THEN "FILE_CHANGED"
    ELSE scan(f, d, k + 1)

\* An evaluator that takes a declared path the record does not hold for a
\* change.
previous_run_info_matches_declared(f, recs, r) ==
    LET file == get_runnable_run_info_file(recs, r)
    IN  IF file.kind = "absent" THEN "NO_INFO"
        ELSE IF \/ \E i \in 1..Len(r.inputs) : ~HasKey(file.inputs, r.inputs[i])
                \/ \E i \in 1..Len(r.outputs) : ~HasKey(file.outputs, r.outputs[i])
        THEN "FILE_CHANGED"
        ELSE LET ins == scan(f, file.inputs, 1)
             IN  IF ins # "" THEN ins
                 ELSE LET outs == scan(f, file.outputs, 1)
                      IN  IF outs # "" THEN outs ELSE "MATCH"

\* An evaluator that goes through the outputs before the inputs.
previous_run_info_matches_outputs_first(f, recs, r) ==
    LET file == get_runnable_run_info_file(recs, r)
    IN  IF file.kind = "absent" THEN "NO_INFO"
        ELSE LET outs == scan(f, file.outputs, 1)
             IN  IF outs # "" THEN outs
                 ELSE LET ins == scan(f, file.inputs, 1)
                      IN  IF ins # "" THEN ins ELSE "MATCH"

\* Executor.previous_run_info_matches, for a run-info file that parses.
previous_run_info_matches(f, recs, r) ==
    LET file == get_runnable_run_info_file(recs, r)
    IN  IF file.kind = "absent" THEN "NO_INFO"
        ELSE LET ins == scan(f, file.inputs, 1)
             IN  IF ins # "" THEN ins
                 ELSE LET outs == scan(f, file.outputs, 1)
                      IN  IF outs # "" THEN outs ELSE "MATCH"

\* ----------------------------------------------------------------- execute
NoCall ==
    [kind |-> "none", name |-> "", inputs |-> <<>>, outputs |-> <<>>,
     before |-> "", status |-> "", invoked |-> 0, exit |-> <<>>,
     raised |-> "", ret |-> <<>>]

\* The paths recorded in a name's run-info file.
RecordedPaths(file) ==
    {file.inputs[i].path : i \in 1..Len(file.inputs)}
        \cup {file.outputs[i].path : i \in 1..Len(file.outputs)}

\* prior after the filesystem went from f to g: a name one of whose recorded
\* files was written or removed is no longer untouched.
Touched(f, g, file) == \E p \in RecordedPaths(file) : f[p] # g[p]
Touch(f, g, recs, pr) ==
    [n \in Names |-> IF Touched(f, g, recs[n]) THEN "none" ELSE pr[n]]

\* What Runnable.run() may do to the filesystem: nothing, or write or remove
\* one of the files the Runnable declares.
RunEffects(f, r) ==
    LET declared == {r.inputs[i] : i \in 1..Len(r.inputs)}
                        \cup {r.outputs[i] : i \in 1..Len(r.outputs)}
    IN  {f} \cup {[f EXCEPT ![p] = c] : p \in declared, c \in FileStates}

\* What run() may raise instead of returning: any exception, and execute
\* catches none. CreateVirtualEnvironment.run() raises
\* UserNotificationException for a PermissionError of venv.create and for a
\* failed pip or package-manager command, and lets every other error of
\* venv.create through: NotADirectoryError when .venv is a file,
\* FileExistsError when it is a dangling link, CalledProcessError of its own
\* pip bootstrap, OSError on a read-only mount. Another Runnable may raise
\* anything, the class that store_run_info raises (FileNotFoundError)
\* included; RuntimeError and KeyboardInterrupt stand for the rest. execute
\* treats every class alike.
RunErrors ==
    {"UserNotificationException", "NotADirectoryError", "FileExistsError",
     "CalledProcessError", "OSError", "FileNotFoundError", "RuntimeError",
     "KeyboardInterrupt"}

\* What Runnable.run() may do to the cache directory: the run-info files are
\* in the directory the action works in (main: Executor(build.venv_dir)), and
\* CreateVirtualEnvironment.run() clears it (venv.create with clear=True), so
\* any of the run-info files may be gone when run() returns or raises.
RunCacheEffects(recs) ==
    {[n \in Names |-> IF n \in gone THEN NoFile ELSE recs[n]] :
        gone \in SUBSET {n \in Names : recs[n].kind # "absent"}}

\* prior after run(): also a name whose run-info file run() removed is no
\* longer untouched.
TouchRun(f, g, recs, recsRun, pr) ==
    [n \in Names |->
        IF recsRun[n] # recs[n] THEN "deleted"
        ELSE IF Touched(f, g, recs[n]) THEN "none" ELSE pr[n]]

\* The declared files as they are in f, path by path.
NoSnap == [kind |-> "none", inputs |-> <<>>, outputs |-> <<>>]
Snapshot(f, r) ==
    [kind |-> "snap",
     inputs |-> [i \in 1..Len(r.inputs) |->
                    [path |-> r.inputs[i], bytes |-> f[r.inputs[i]]]],
     outputs |-> [i \in 1..Len(r.outputs) |->
                    [path |-> r.outputs[i], bytes |-> f[r.outputs[i]]]]]

\* An execute that returns 0 after a run.
return_zero(exit_code) == 0

\* execute's return statement after run() and store_run_info().
return_exit_code(exit_code) == exit_code

\* Executor.execute(runnable). Where the call reaches runnable.run(), run()
\* leaves the filesystem as fsRun and the cache directory as recsRun, and
\* either raises error, one of errors, or returns rc. The history kept of the calls is
\* either the call itself (last, prior) or, with track, the runs that were
\* saved (runs).
execute(r, errors, track) ==
    LET file == get_runnable_run_info_file(records, r)
        call == [NoCall EXCEPT !.kind = "call", !.name = r.name,
                               !.inputs = r.inputs, !.outputs = r.outputs,
                               !.before = prior[r.name]]
        Calls(c, pr) == IF track THEN UNCHANGED <<last, prior>>
                        ELSE last' = c /\ prior' = pr
    IN  IF load_raises(file) # ""
        THEN \* json.load raises
             /\ Calls([call EXCEPT !.raised = load_raises(file)],
                      [prior EXCEPT ![r.name] = "none"])
             /\ UNCHANGED <<fs, records, runs>>
        ELSE LET status == previous_run_info_matches(fs, records, r)
             IN  IF should_run(status)
                 THEN \E fsRun \in RunEffects(fs, r),
                         recsRun \in RunCacheEffects(records) :
                        LET ran == [call EXCEPT !.status = status, !.invoked = 1]
                            touched == TouchRun(fs, fsRun, records, recsRun, prior)
                        IN  /\ fs' = fsRun
                            /\ \/ \E error \in errors :
                                    \* run() raises
                                    /\ Calls([ran EXCEPT !.raised = error],
                                             [touched EXCEPT ![r.name] = "none"])
                                    /\ records' = recsRun
                                    /\ UNCHANGED runs
                               \/ \E rc \in ExitCodes :
                                    IF store_raises(fsRun, r)
                                    THEN /\ Calls([ran EXCEPT
                                                      !.exit = <<rc>>,
                                                      !.raised = "FileNotFoundError"],
                                                  [touched EXCEPT ![r.name] = "none"])
                                         /\ records' = store_run_info_raised(recsRun, r)
                                         /\ UNCHANGED runs
                                    ELSE /\ records' = store_run_info(fsRun, recsRun, r)
                                         /\ Calls([ran EXCEPT
                                                      !.exit = <<rc>>,
                                                      !.ret = <<return_exit_code(rc)>>],
                                                  [touched EXCEPT ![r.name] =
                                                      IF rc = 0 THEN "ran_ok"
                                                      ELSE "ran_failed"])
                                         /\ runs' = IF track
                                                    THEN [runs EXCEPT ![r.name] =
                                                            [latest |-> Snapshot(fsRun, r),
                                                             good |-> IF rc = 0
                                                                      THEN Snapshot(fsRun, r)
                                                                      ELSE @.good]]
                                                    ELSE runs
                 ELSE /\ Calls([call EXCEPT !.status = status, !.ret = <<0>>],
                               [prior EXCEPT ![r.name] = "skipped"])
                      /\ UNCHANGED <<fs, records, runs>>

\* One call execute(r) for a Runnable r of the set R whose run() raises
\* nothing but the classes of errors.
Execute(R, errors, track) ==
    \E r \in R :
        /\ execute(r, errors, track)
        /\ UNCHANGED listVars

\* ------------------------------------------------------- the environment
\* Between two calls a file is written with other bytes, or created.
WriteFile ==
    \E p \in Paths, c \in Contents :
        /\ fs[p] # c
        /\ fs' = [fs EXCEPT ![p] = c]
        /\ prior' = Touch(fs, fs', records, prior)
        /\ last' = NoCall
        /\ UNCHANGED <<records, runs, listVars>>

\* Between two calls a file is deleted.
DeleteFile ==
    \E p \in Paths :
        /\ exists(fs, p)
        /\ fs' = [fs EXCEPT ![p] = Absent]
        /\ prior' = Touch(fs, fs', records, prior)
        /\ last' = NoCall
        /\ UNCHANGED <<records, runs, listVars>>

\* Between two calls the run-info file of a name is deleted.
DeleteRecord ==
    \E n \in Names :
        /\ records[n].kind # "absent"
        /\ records' = [records EXCEPT ![n] = NoFile]
        /\ prior' = [prior EXCEPT ![n] = "deleted"]
        /\ last' = NoCall
        /\ UNCHANGED <<fs, runs, listVars>>

\* Between two calls the run-info file of a name is overwritten with
\* something json.load cannot parse.
CorruptRecord ==
    \E n \in Names, file \in UnparsableFiles :
        /\ records[n].kind = "json"
        /\ records' = [records EXCEPT ![n] = file]
        /\ prior' = [prior EXCEPT ![n] = "none"]
        /\ last' = NoCall
        /\ UNCHANGED <<fs, runs, listVars>>

\* ------------------------------------------------------------ test_lists
Numbers == (0 - MaxAbs)..MaxAbs
ShortLists == UNION {[1..k -> Numbers] : k \in 1..MaxLen}
RunLists ==
    {[i \in 1..(j + k) |-> IF i =< j THEN v ELSE w] :
        j \in 1..MaxRun, k \in 0..MaxRun, v \in Numbers, w \in Numbers}
NumberLists == ShortLists \cup RunLists

\* A loop with the comparison turned round.
RECURSIVE max_loop_reversed(_, _, _)
max_loop_reversed(nums, k, biggest) ==
    IF k > Len(nums) THEN biggest
    ELSE max_loop_reversed(nums, k + 1, IF biggest > nums[k] THEN nums[k] ELSE biggest)

\* calculate_max: the loop from element k on, with the running maximum.
RECURSIVE max_loop(_, _, _)
max_loop(nums, k, biggest) ==
    IF k > Len(nums) THEN biggest
    ELSE max_loop(nums, k + 1, IF biggest < nums[k] THEN nums[k] ELSE biggest)

calculate_max(nums) == max_loop(nums, 1, nums[1])

CallMax ==
    /\ called = ""
    /\ called' = "calculate_max"
    /\ result' = <<calculate_max(numbers)>>
    /\ UNCHANGED <<numbers, execVars>>

\* A loop with the comparison turned round.
RECURSIVE min_loop_reversed(_, _, _)
min_loop_reversed(nums, k, smallest) ==
    IF k > Len(nums) THEN smallest
    ELSE min_loop_reversed(nums, k + 1,
                           IF smallest < nums[k] THEN nums[k] ELSE smallest)

\* calculate_min: the loop from element k on, with the running minimum.
RECURSIVE min_loop(_, _, _)
min_loop(nums, k, smallest) ==
    IF k > Len(nums) THEN smallest
    ELSE min_loop(nums, k + 1, IF smallest > nums[k] THEN nums[k] ELSE smallest)

calculate_min(nums) == min_loop(nums, 1, nums[1])

CallMin ==
    /\ called = ""
    /\ called' = "calculate_min"
    /\ result' = <<calculate_min(numbers)>>
    /\ UNCHANGED <<numbers, execVars>>

\* ------------------------------------------------ Python float arithmetic
\* A float is an IEEE 754 binary64: 0.0, or sign * m * 2^(exp - (Precision - 1))
\* with m the integer whose Precision bits, most significant first, are mant
\* (mant[1] = 1), so that 2^exp =< |value| < 2^(exp + 1).
Precision == 53
FloatZero == [sign |-> 0, mant |-> <<>>, exp |-> 0]

Abs(x) == IF x < 0 THEN 0 - x ELSE x

\* bits + 1, most significant bit first; <<carry, bits>>.
RECURSIVE Increment(_, _)
Increment(bits, k) ==
    IF k = 0 THEN <<1, bits>>
    ELSE IF bits[k] = 0 THEN <<0, [bits EXCEPT ![k] = 1]>>
    ELSE Increment([bits EXCEPT ![k] = 0], k - 1)

\* Round to nearest, ties to even: mant are the Precision leading bits, guard
\* the bit after them, sticky whether anything non-zero follows the guard.
RoundNearestEven(sign, mant, exp, guard, sticky) ==
    IF guard = 1 /\ (sticky \/ mant[Precision] = 1)
    THEN LET up == Increment(mant, Precision)
         IN  IF up[1] = 1
             THEN [sign |-> sign,
                   mant |-> <<1>> \o SubSeq(up[2], 1, Precision - 1),
                   exp |-> exp + 1]
             ELSE [sign |-> sign, mant |-> up[2], exp |-> exp]
    ELSE [sign |-> sign, mant |-> mant, exp |-> exp]

\* a / b scaled by powers of two until b =< a < 2b: <<a, b, exponent>>.
RECURSIVE Normalise(_, _, _)
Normalise(a, b, e) ==
    IF a >= 2 * b THEN Normalise(a, 2 * b, e + 1)
    ELSE IF a < b THEN Normalise(2 * a, b, e - 1)
    ELSE <<a, b, e>>

\* Binary long division: k more quotient bits of rem / b; <<bits, remainder>>.
RECURSIVE DivBits(_, _, _, _)
DivBits(rem, b, k, bits) ==
    IF k = 0 THEN <<bits, rem>>
    ELSE IF 2 * rem >= b THEN DivBits(2 * rem - b, b, k - 1, Append(bits, 1))
    ELSE DivBits(2 * rem, b, k - 1, Append(bits, 0))

\* A true division that floors, as the // operator does.
truediv_floor(a, b) ==
    IF a \div b = 0 THEN FloatZero
    ELSE LET n == Normalise(Abs(a \div b), 1, 0)
             q == DivBits(n[1] - n[2], n[2], Precision - 1, <<1>>)
         IN  [sign |-> IF a \div b < 0 THEN 0 - 1 ELSE 1, mant |-> q[1], exp |-> n[3]]

\* int / int of Python (b > 0): the float nearest to the quotient.
truediv(a, b) ==
    IF a = 0 THEN FloatZero
    ELSE LET n == Normalise(Abs(a), b, 0)
             q == DivBits(n[1] - n[2], n[2], Precision - 1, <<1>>)
             g == DivBits(q[2], n[2], 1, <<>>)
         IN  RoundNearestEven(IF a < 0 THEN 0 - 1 ELSE 1,
                              q[1], n[3], g[1][1], g[2] # 0)

\* The binary digits of a natural number, most significant first.
RECURSIVE BitsOf(_)
BitsOf(c) == IF c = 0 THEN <<>> ELSE Append(BitsOf(c \div 2), c % 2)

\* bits * k exactly: the carry out of bit i (bit Len(bits) is the least
\* significant), and the product's bits, most significant first.
RECURSIVE CarryOut(_, _, _)
CarryOut(bits, k, i) ==
    IF i > Len(bits) THEN 0
    ELSE (bits[i] * k + CarryOut(bits, k, i + 1)) \div 2

MulBits(bits, k) ==
    BitsOf(CarryOut(bits, k, 1))
        \o [i \in 1..Len(bits) |-> (bits[i] * k + CarryOut(bits, k, i + 1)) % 2]

\* float * int of Python (k > 0): the float nearest to the exact product.
float_mul(x, k) ==
    IF x.sign = 0 THEN FloatZero
    ELSE LET prod == MulBits(x.mant, k)
             extra == Len(prod) - Precision
         IN  RoundNearestEven(
                 x.sign, SubSeq(prod, 1, Precision), x.exp + extra,
                 IF extra > 0 THEN prod[Precision + 1] ELSE 0,
                 \E j \in (Precision + 2)..Len(prod) : prod[j] = 1)

\* calculate_average: the loop from element k on; <<sum, number_of_elements>>.
RECURSIVE average_loop(_, _, _, _)
average_loop(nums, k, sum, number_of_elements) ==
    IF k > Len(nums) THEN <<sum, number_of_elements>>
    ELSE average_loop(nums, k + 1, sum + nums[k], number_of_elements + 1)

calculate_average(nums) ==
    LET totals == average_loop(nums, 1, 0, 0)
    IN  truediv(totals[1], totals[2])

CallAverage ==
    /\ called = ""
    /\ called' = "calculate_average"
    /\ result' = <<calculate_average(numbers)>>
    /\ UNCHANGED <<numbers, execVars>>

\* ------------------------------------------------------- specifications
InitExec ==
    /\ fs \in FileSystems
    /\ records = [n \in Names |-> NoFile]
    /\ last = NoCall
    /\ prior = [n \in Names |-> "none"]
    /\ runs = [n \in Names |-> [latest |-> NoSnap, good |-> NoSnap]]

InitNoLists ==
    /\ numbers = <<>>
    /\ called = ""
    /\ result = <<>>

Init == InitExec /\ InitNoLists

\* The Runnables of one name, with every declaration of inputs and outputs.
UnitsOf(n) == {r \in Runnables : r.name = n}

\* The Runnables named U that declare any input and either no output, as
\* CreateVirtualEnvironment does, or the output b.txt.
DeclaredUnits == {r \in UnitsOf("U") : r.outputs \in {<<>>, <<"b.txt">>}}

\* Calls of execute on the Runnables of DeclaredUnits, and the environment
\* between them.
Next ==
    \/ Execute(DeclaredUnits, RunErrors, FALSE)
    \/ WriteFile
    \/ DeleteFile
    \/ DeleteRecord
    \/ CorruptRecord

Spec == Init /\ [][Next]_vars

\* Calls of execute on every Runnable named U, remembering in runs the runs
\* that were saved.
NextRuns ==
    \/ Execute(UnitsOf("U"), RunErrors, TRUE)
    \/ WriteFile
    \/ DeleteFile
    \/ DeleteRecord
    \/ CorruptRecord

SpecRuns == Init /\ [][NextRuns]_vars

InitLists ==
    /\ numbers \in NumberLists
    /\ called = ""
    /\ result = <<>>
    /\ fs = [p \in Paths |-> Absent]
    /\ records = [n \in Names |-> NoFile]
    /\ last = NoCall
    /\ prior = [n \in Names |-> "none"]
    /\ runs = [n \in Names |-> [latest |-> NoSnap, good |-> NoSnap]]

NextLists ==
    \/ CallMax
    \/ CallMin
    \/ CallAverage

SpecLists == InitLists /\ [][NextLists]_vars

\* Calls of execute on Runnables of both names that declare the same input
\* and the same output.
SharingUnits ==
    {r \in Runnables : r.inputs = <<"a.txt">> /\ r.outputs = <<"b.txt">>}

NextNames ==
    \/ Execute(SharingUnits, RunErrors, FALSE)
    \/ WriteFile
    \/ DeleteFile
    \/ DeleteRecord
    \/ CorruptRecord

SpecNames == Init /\ [][NextNames]_vars

\* execute line by line. last.kind is the place of the call: the line it is
\* about to execute ("at_run" line 115, "at_store" 116, "at_return" 117,
\* "at_skip" 122), or how it ended ("returned", "raised"). The environment
\* acts between calls.
InCall == {"at_run", "at_store", "at_return", "at_skip"}
Current == [name |-> last.name, inputs |-> last.inputs, outputs |-> last.outputs]

\* A branch that runs the action whatever the status is.
branch_always_run(status) == "at_run"

\* if run_info_status.should_run: (line 111)
branch(status) == IF should_run(status) THEN "at_run" ELSE "at_skip"

\* run_info_status = self.previous_run_info_matches(runnable) (line 110)
StepEvaluate ==
    /\ last.kind \notin InCall
    /\ \E r \in UnitsOf("U") :
          LET call == [NoCall EXCEPT !.name = r.name, !.inputs = r.inputs,
                                     !.outputs = r.outputs, !.before = prior[r.name]]
          IN  last' = IF load_raises(get_runnable_run_info_file(records, r)) # ""
                      THEN [call EXCEPT !.kind = "raised",
                                        !.raised = load_raises(
                                            get_runnable_run_info_file(records, r))]
                      ELSE LET status == previous_run_info_matches(fs, records, r)
                           IN  [call EXCEPT !.kind = branch(status), !.status = status]
    /\ UNCHANGED <<fs, records, prior, runs, listVars>>

\* exit_code = runnable.run() (line 115)
StepRun ==
    /\ last.kind = "at_run"
    /\ \E error \in RunErrors \cup {""}, rc \in ExitCodes :
         \E fsRun \in RunEffects(fs, Current), recsRun \in RunCacheEffects(records) :
            /\ error # "" => rc = 0
            /\ fs' = fsRun
            /\ records' = recsRun
            /\ last' = IF error # ""
                       THEN [last EXCEPT !.kind = "raised", !.invoked = @ + 1,
                                         !.raised = error]
                       ELSE [last EXCEPT !.kind = "at_store", !.invoked = @ + 1,
                                         !.exit = <<rc>>]
    /\ UNCHANGED <<prior, runs, listVars>>

\* self.store_run_info(runnable) (line 116)
StepStore ==
    /\ last.kind = "at_store"
    /\ IF store_raises(fs, Current)
       THEN /\ records' = store_run_info_raised(records, Current)
            /\ last' = [last EXCEPT !.kind = "raised", !.raised = "FileNotFoundError"]
       ELSE /\ records' = store_run_info(fs, records, Current)
            /\ last' = [last EXCEPT !.kind = "at_return"]
    /\ UNCHANGED <<fs, prior, runs, listVars>>

\* return exit_code (line 117)
StepReturn ==
    /\ last.kind = "at_return"
    /\ last' = [last EXCEPT !.kind = "returned", !.ret = <<return_exit_code(last.exit[1])>>]
    /\ UNCHANGED <<fs, records, prior, runs, listVars>>

\* return 0 (line 122)
StepSkip ==
    /\ last.kind = "at_skip"
    /\ last' = [last EXCEPT !.kind = "returned", !.ret = <<0>>]
    /\ UNCHANGED <<fs, records, prior, runs, listVars>>

BetweenCalls ==
    /\ last.kind \notin InCall
    /\ (WriteFile \/ DeleteFile \/ DeleteRecord \/ CorruptRecord)

NextSteps ==
    \/ StepEvaluate
    \/ StepRun
    \/ StepStore
    \/ StepReturn
    \/ StepSkip
    \/ BetweenCalls

SpecSteps == Init /\ [][NextSteps]_vars

\* previous_run_info_matches alone, on any run-info file that parses: its
\* dictionaries hold each path at most once, in any order, with the digest
\* of any bytes.
Hashes == {hexdigest(c) : c \in Contents}
Entries == [path : Paths, hash : Hashes]
Dicts ==
    {<<>>} \cup {<<e>> : e \in Entries}
           \cup {<<p[1], p[2]>> : p \in {q \in Entries \X Entries : q[1].path # q[2].path}}
RunInfoFiles == {NoFile} \cup [kind : {"json"}, inputs : Dicts, outputs : Dicts]

Evaluate ==
    /\ last.kind = "none"
    /\ \E r \in UnitsOf("U") :
          last' = [NoCall EXCEPT !.kind = "evaluate", !.name = r.name,
                                 !.status = previous_run_info_matches(fs, records, r)]
    /\ UNCHANGED <<fs, records, prior, runs, listVars>>

InitMatch ==
    /\ fs \in FileSystems
    /\ \E file \in RunInfoFiles :
          records = [n \in Names |-> IF n = "U" THEN file ELSE NoFile]
    /\ last = NoCall
    /\ prior = [n \in Names |-> "none"]
    /\ runs = [n \in Names |-> [latest |-> NoSnap, good |-> NoSnap]]
    /\ InitNoLists

NextMatch == Evaluate

SpecMatch == InitMatch /\ [][NextMatch]_vars

\* ================================================================ claims
\* The call that a step completes is last'; last'.kind = "call" holds of the
\* steps of Execute and of no other step.
Keys(d) == {d[i].path : i \in 1..Len(d)}
DeclaredSet(paths) == {paths[i] : i \in 1..Len(paths)}

\* d maps exactly the paths of the list to the digest of their bytes in f.
HoldsHashes(d, paths, f) ==
    /\ Keys(d) = DeclaredSet(paths)
    /\ Len(d) = Cardinality(Keys(d))
    /\ \A i \in 1..Len(d) :
          f[d[i].path] # Absent /\ d[i].hash = hexdigest(f[d[i].path])

\* file is a record of fresh hashes of the declared inputs and outputs in f.
IsFreshRecord(file, ins, outs, f) ==
    /\ file.kind = "json"
    /\ HoldsHashes(file.inputs, ins, f)
    /\ HoldsHashes(file.outputs, outs, f)

AllDeclaredExist(ins, outs, f) ==
    \A p \in DeclaredSet(ins) \cup DeclaredSet(outs) : f[p] # Absent

\* Some recorded file is there with bytes of another digest than recorded.
RecordedChanged(file, f) ==
    \/ \E i \in 1..Len(file.inputs) :
          /\ f[file.inputs[i].path] # Absent
          /\ hexdigest(f[file.inputs[i].path]) # file.inputs[i].hash
    \/ \E i \in 1..Len(file.outputs) :
          /\ f[file.outputs[i].path] # Absent
          /\ hexdigest(f[file.outputs[i].path]) # file.outputs[i].hash

\* Some recorded file is gone.
RecordedMissing(file, f) ==
    \E p \in Keys(file.inputs) \cup Keys(file.outputs) : f[p] = Absent

\* C1: a call of execute on a unit whose run-info file does not exist invokes
\* the action, once, whatever the declared files hold.
C1_NoRecordRunsAction ==
    [][(last'.kind = "call" /\ records[last'.name].kind = "absent")
          => last'.invoked = 1]_vars

C1_Witness ==
    /\ last.kind = "call"
    /\ last.status = "NO_INFO"
    /\ last.invoked = 1
    /\ \E p \in DeclaredSet(last.inputs) : fs[p] = Absent

\* C2: after a call that ran the action with exit code 0 and saved, with the
\* recorded files and the record untouched since, the next call on the unit
\* does not invoke the action, returns 0 and leaves the record as it is.
C2_SecondCallIsNoOp ==
    [][(last'.kind = "call" /\ prior[last'.name] = "ran_ok")
          => /\ last'.invoked = 0
             /\ last'.raised = ""
             /\ last'.ret = <<0>>
             /\ records' = records]_vars

C2_Witness ==
    /\ last.kind = "call"
    /\ last.before = "ran_ok"
    /\ last.invoked = 0
    /\ last.ret = <<0>>
    /\ Len(records[last.name].inputs) + Len(records[last.name].outputs) > 1

\* C3: a call on a unit one of whose recorded files now holds bytes of
\* another hash than the recorded one invokes the action.
C3_ChangedFileRunsAction ==
    [][(/\ last'.kind = "call"
        /\ records[last'.name].kind = "json"
        /\ RecordedChanged(records[last'.name], fs))
          => last'.invoked = 1]_vars

C3_Witness ==
    /\ last.kind = "call"
    /\ last.status = "FILE_CHANGED"
    /\ last.invoked = 1

\* C4: a call on a unit one of whose recorded files has been deleted invokes
\* the action.
C4_DeletedFileRunsAction ==
    [][(/\ last'.kind = "call"
        /\ records[last'.name].kind = "json"
        /\ RecordedMissing(records[last'.name], fs))
          => last'.invoked = 1]_vars

C4_Witness ==
    /\ last.kind = "call"
    /\ last.status = "FILE_NOT_FOUND"
    /\ last.invoked = 1

\* C5 as stated: of two calls of execute on the same unit with no step of
\* the environment between them, the second skips and returns 0, whatever
\* the first one met (here: every first call whose action, if invoked,
\* returned an exit code).
C5_EveryLaterCallSkips ==
    [][(/\ last.kind = "call"
        /\ last.invoked = 1 => last.exit # <<>>
        /\ last'.kind = "call"
        /\ last'.name = last.name
        /\ last'.inputs = last.inputs
        /\ last'.outputs = last.outputs)
          => (last'.invoked = 0 /\ last'.ret = <<0>>)]_vars

\* C5, amended: if the previous call on the unit returned (it ran the action
\* and saved, or it skipped) and neither a recorded file nor the record has
\* changed since, the next call does not invoke the action and returns 0;
\* and a call that ends in an error returns nothing and writes no record:
\* the run-info file of the unit is afterwards what it was before the call,
\* or gone.
C5_LaterCallSkipsAfterReturn ==
    [][/\ (/\ last'.kind = "call"
           /\ prior[last'.name] \in {"ran_ok", "ran_failed", "skipped"})
             => (last'.invoked = 0 /\ last'.raised = "" /\ last'.ret = <<0>>)
       /\ (last'.kind = "call" /\ last'.raised # "")
             => /\ last'.ret = <<>>
                /\ records'[last'.name] \in {records[last'.name], NoFile}]_vars

C5_Witness ==
    /\ last.kind = "call"
    /\ last.before = "skipped"
    /\ last.invoked = 0
    /\ last.ret = <<0>>

\* C6 as stated: the call after the record file was deleted (as a first
\* call, the record being absent) invokes the action and, the action having
\* returned, returns its exit code and writes a record of fresh hashes of
\* the declared inputs and outputs.
C6_AbsentRecordRunsAndSaves ==
    [][(/\ last'.kind = "call"
        /\ records[last'.name].kind = "absent"
        /\ last'.exit # <<>>)
          => /\ last'.invoked = 1
             /\ last'.raised = ""
             /\ last'.ret = last'.exit
             /\ IsFreshRecord(records'[last'.name], last'.inputs, last'.outputs, fs')]_vars

\* C6, amended: with the record absent the call invokes the action; if the
\* action returns and every declared input and output exists afterwards, the
\* call returns the action's exit code and writes a record of fresh hashes of
\* the declared inputs and outputs; otherwise the error propagates and no
\* record is written.
C6_AbsentRecordActsAsFirstRun ==
    [][(last'.kind = "call" /\ records[last'.name].kind = "absent")
          => /\ last'.invoked = 1
             /\ last'.status = "NO_INFO"
             /\ IF /\ last'.exit # <<>>
                   /\ AllDeclaredExist(last'.inputs, last'.outputs, fs')
                THEN /\ last'.raised = ""
                     /\ last'.ret = last'.exit
                     /\ IsFreshRecord(records'[last'.name], last'.inputs,
                                      last'.outputs, fs')
                ELSE /\ last'.raised # ""
                     /\ last'.ret = <<>>
                     /\ records'[last'.name].kind = "absent"]_vars

C6_Witness ==
    /\ last.kind = "call"
    /\ last.before = "deleted"
    /\ last.invoked = 1
    /\ last.raised = ""
    /\ last.ret = last.exit
    /\ last.outputs # <<>>
    /\ IsFreshRecord(records[last.name], last.inputs, last.outputs, fs)

\* C7: a call that invoked the action and completed returns exactly the exit
\* code the action returned; the action was invoked once.
C7_ReturnsActionExitCode ==
    (last.kind = "call" /\ last.invoked >= 1 /\ last.raised = "")
        => /\ last.invoked = 1
           /\ Len(last.exit) = 1
           /\ last.ret = last.exit

C7_Witness ==
    /\ last.kind = "call"
    /\ last.invoked = 1
    /\ last.raised = ""
    /\ last.ret # <<0>>

\* C8 as stated: whenever the call invoked the action and the action
\* returned, whatever its exit code, the record of the unit is saved.
C8_RunAlwaysSaves ==
    [][(last'.kind = "call" /\ last'.invoked = 1 /\ last'.exit # <<>>)
          => IsFreshRecord(records'[last'.name], last'.inputs, last'.outputs, fs')]_vars

\* C8, amended: whenever the call invoked the action and the action returned,
\* whatever its exit code: if every declared input and output exists, the
\* record is written with their fresh hashes and the call returns; if not,
\* FileNotFoundError propagates and no run-info file is written: each is as
\* it was before the call, or gone.
C8_RunSavesWhateverExitCode ==
    [][(last'.kind = "call" /\ last'.invoked = 1 /\ last'.exit # <<>>)
          => IF AllDeclaredExist(last'.inputs, last'.outputs, fs')
             THEN /\ last'.raised = ""
                  /\ IsFreshRecord(records'[last'.name], last'.inputs,
                                   last'.outputs, fs')
             ELSE /\ last'.raised = "FileNotFoundError"
                  /\ \A n \in Names : records'[n] \in {records[n], NoFile}]_vars

C8_Witness ==
    /\ last.kind = "call"
    /\ last.invoked = 1
    /\ last.exit # <<>>
    /\ last.exit # <<0>>
    /\ last.raised = ""
    /\ last.inputs # <<>>
    /\ IsFreshRecord(records[last.name], last.inputs, last.outputs, fs)

\* The record holds exactly the paths of the snapshot with the digests of
\* the bytes they had in it.
ReflectsList(d, files) ==
    /\ Keys(d) = {files[i].path : i \in 1..Len(files)}
    /\ Len(d) = Cardinality(Keys(d))
    /\ \A i \in 1..Len(files) : \E j \in 1..Len(d) :
          /\ d[j].path = files[i].path
          /\ files[i].bytes # Absent
          /\ d[j].hash = hexdigest(files[i].bytes)

Reflects(file, snap) ==
    /\ snap.kind = "snap"
    /\ ReflectsList(file.inputs, snap.inputs)
    /\ ReflectsList(file.outputs, snap.outputs)

\* C9 as stated: a record that is present holds the paths and hashes of the
\* unit's declared files as they were at the end of the most recent run whose
\* action returned exit code 0.
C9_RecordOfLastSuccessfulRun ==
    \A n \in Names :
        records[n].kind = "json" => Reflects(records[n], runs[n].good)

\* C9, amended: a record that is present holds the paths and hashes of the
\* unit's declared files as they were at the end of the most recent run that
\* saved, whatever the exit code of its action.
C9_RecordOfLastSavedRun ==
    \A n \in Names :
        records[n].kind = "json" => Reflects(records[n], runs[n].latest)

C9_Witness ==
    \E n \in Names :
        /\ records[n].kind = "json"
        /\ runs[n].good.kind = "snap"
        /\ runs[n].latest # runs[n].good
        /\ Reflects(records[n], runs[n].latest)
        /\ \E p \in Keys(records[n].inputs) : fs[p] = Absent

\* C10: calculate_max of a non-empty list returns an element of the list
\* that is greater than or equal to every element.
C10_MaxIsGreatestElement ==
    called = "calculate_max"
        => /\ \E i \in 1..Len(numbers) : result[1] = numbers[i]
           /\ \A i \in 1..Len(numbers) : result[1] >= numbers[i]

C10_Witness ==
    /\ called = "calculate_max"
    /\ Len(numbers) = MaxLen
    /\ result[1] > numbers[1]
    /\ result[1] > numbers[Len(numbers)]

\* C11: calculate_min of a non-empty list returns an element of the list
\* that is less than or equal to every element.
C11_MinIsLeastElement ==
    called = "calculate_min"
        => /\ \E i \in 1..Len(numbers) : result[1] = numbers[i]
           /\ \A i \in 1..Len(numbers) : result[1] =< numbers[i]

C11_Witness ==
    /\ called = "calculate_min"
    /\ Len(numbers) = MaxLen
    /\ result[1] < numbers[1]
    /\ result[1] < numbers[Len(numbers)]

\* The sum and the number of elements of a list, and the lists whose mean a
\* float holds exactly or brings back exactly.
RECURSIVE SumOf(_)
SumOf(nums) == IF nums = <<>> THEN 0 ELSE nums[1] + SumOf(Tail(nums))
IsDyadic(sum, n) == \E j \in 0..n : (sum * 2^j) % n = 0
IsTwoPowers(n) == \E i, j \in 0..n : n = 2^i \/ n = 2^i + 2^j
TimesCount == float_mul(result[1], Len(numbers))

\* The sum has fewer binary digits than a float's mantissa: |sum| < 2^52.
SumFits == Len(BitsOf(Abs(SumOf(numbers)))) < Precision

\* float == int of Python, which compares the exact values, for an integer
\* of at most Precision binary digits: the float has i's sign, i's binary
\* digits as its leading mantissa bits with zeros after them, and the
\* exponent of i's leading digit.
FloatIsInt(x, i) ==
    IF i = 0 THEN x.sign = 0
    ELSE LET digits == BitsOf(Abs(i))
         IN  /\ x.sign = (IF i < 0 THEN 0 - 1 ELSE 1)
             /\ x.exp = Len(digits) - 1
             /\ x.mant = digits \o [k \in 1..(Precision - Len(digits)) |-> 0]

\* C12 as stated: for every non-empty list of integers the value returned by
\* calculate_average, multiplied by the number of elements, equals the sum of
\* the elements.
C12_AverageTimesCountIsSum ==
    called = "calculate_average" => FloatIsInt(TimesCount, SumOf(numbers))

\* C12 amended: for a list whose sum is below 2^52 in magnitude, the
\* returned value multiplied by the number of elements equals the sum
\* whenever the mean is a dyadic rational (an integer, or a value such as
\* 7.5) or the number of elements is a power of two or a sum of two powers
\* of two; and the returned value is the mean itself when the mean is an
\* integer.
C12_AverageTimesCountIsSumWhenExact ==
    (called = "calculate_average" /\ SumFits)
        => /\ (IsDyadic(SumOf(numbers), Len(numbers)) \/ IsTwoPowers(Len(numbers)))
                => FloatIsInt(TimesCount, SumOf(numbers))
           /\ SumOf(numbers) % Len(numbers) = 0
                => FloatIsInt(result[1], SumOf(numbers) \div Len(numbers))

\* A list with a negative element whose mean is not an integer and whose
\* average multiplied by its length gives the sum back.
C12_Witness ==
    /\ called = "calculate_average"
    /\ SumOf(numbers) % Len(numbers) # 0
    /\ \E i \in 1..Len(numbers) : numbers[i] < 0
    /\ IsDyadic(SumOf(numbers), Len(numbers))
    /\ FloatIsInt(TimesCount, SumOf(numbers))

\* C13: a call that ran the action and saved leaves a record whose inputs
\* are exactly the declared input paths and whose outputs are exactly the
\* declared output paths, each with the hash of the bytes the file has once
\* the action has finished; a path of the record found by the call is in the
\* new one only if it is declared.
C13_SaveReplacesRecord ==
    [][(last'.kind = "call" /\ last'.invoked = 1 /\ last'.raised = "")
          => LET old == records[last'.name]
                 new == records'[last'.name]
             IN  /\ IsFreshRecord(new, last'.inputs, last'.outputs, fs')
                 /\ Keys(old.inputs) \cap Keys(new.inputs)
                        \subseteq DeclaredSet(last'.inputs)
                 /\ Keys(old.outputs) \cap Keys(new.outputs)
                        \subseteq DeclaredSet(last'.outputs)]_vars

\* A call that found a record of the unit, one of whose files had changed,
\* ran the action and saved a record of one input and one output.
C13_Witness ==
    /\ last.kind = "call"
    /\ last.status = "FILE_CHANGED"
    /\ last.invoked = 1
    /\ last.raised = ""
    /\ Len(records[last.name].inputs) = 1
    /\ Len(records[last.name].outputs) = 1
    /\ IsFreshRecord(records[last.name], last.inputs, last.outputs, fs)

\* C14: a call that finds a record all of whose recorded files exist with
\* their recorded hashes reports MATCH and skips: it does not invoke the
\* action, returns 0 and writes nothing, whatever paths the unit declares
\* now.
C14_DecisionOverRecordedPaths ==
    [][(/\ last'.kind = "call"
        /\ records[last'.name].kind = "json"
        /\ ~RecordedMissing(records[last'.name], fs)
        /\ ~RecordedChanged(records[last'.name], fs))
          => /\ last'.status = "MATCH"
             /\ last'.invoked = 0
             /\ last'.raised = ""
             /\ last'.ret = <<0>>
             /\ records' = records
             /\ fs' = fs]_vars

\* A skipped call on a unit whose record holds a path, and that declares an
\* input the record does not hold and an output that is not there.
C14_Witness ==
    /\ last.kind = "call"
    /\ last.status = "MATCH"
    /\ last.invoked = 0
    /\ \E i \in 1..Len(last.inputs) :
          ~HasKey(records[last.name].inputs, last.inputs[i])
    /\ \E i \in 1..Len(last.outputs) : fs[last.outputs[i]] = Absent
    /\ RecordedPaths(records[last.name]) # {}

\* The reference of C15: the recorded paths in order, inputs then outputs,
\* and the first of them that is missing or holds bytes of another hash.
Recorded(file) == file.inputs \o file.outputs
IsMissing(f, e) == f[e.path] = Absent
IsChanged(f, e) == f[e.path] # Absent /\ hexdigest(f[e.path]) # e.hash
Offending(f, file) ==
    {i \in 1..Len(Recorded(file)) :
        IsMissing(f, Recorded(file)[i]) \/ IsChanged(f, Recorded(file)[i])}
FirstOffending(f, file) ==
    CHOOSE i \in Offending(f, file) : \A j \in Offending(f, file) : i =< j
Reference(f, file) ==
    IF file.kind = "absent" THEN "NO_INFO"
    ELSE IF Offending(f, file) = {} THEN "MATCH"
    ELSE IF IsMissing(f, Recorded(file)[FirstOffending(f, file)])
    THEN "FILE_NOT_FOUND"
    ELSE "FILE_CHANGED"

\* C15: for every run-info file and filesystem previous_run_info_matches
\* returns what the reference gives: NO_INFO without a file; otherwise the
\* first recorded path, inputs before outputs, that is missing or changed
\* decides between FILE_NOT_FOUND and FILE_CHANGED; MATCH if and only if
\* every recorded path exists with its recorded hash; and should_run is
\* false for MATCH only.
C15_EvaluatorEqualsReference ==
    last.kind = "evaluate"
        => /\ last.status = Reference(fs, records[last.name])
           /\ last.status = "MATCH"
                <=> /\ records[last.name].kind = "json"
                    /\ \A i \in 1..Len(Recorded(records[last.name])) :
                          LET e == Recorded(records[last.name])[i]
                          IN  fs[e.path] # Absent /\ hexdigest(fs[e.path]) = e.hash
           /\ should_run(last.status) <=> last.status # "MATCH"

\* An evaluation that found a changed input before a missing output.
C15_Witness ==
    /\ last.kind = "evaluate"
    /\ last.status = "FILE_CHANGED"
    /\ \E i \in 1..Len(records[last.name].inputs) :
          IsChanged(fs, records[last.name].inputs[i])
    /\ \E i \in 1..Len(records[last.name].outputs) :
          IsMissing(fs, records[last.name].outputs[i])

\* C16 as stated: when a declared input or output does not exist once the action has
\* returned, the call ends with FileNotFoundError and returns no exit code,
\* and every run-info file is what it was before the call: absent stays
\* absent, an older record stays as it was.
C16_FailedSaveLeavesRecord ==
    [][(/\ last'.kind = "call"
        /\ last'.invoked = 1
        /\ last'.exit # <<>>
        /\ ~AllDeclaredExist(last'.inputs, last'.outputs, fs'))
          => /\ last'.raised = "FileNotFoundError"
             /\ last'.ret = <<>>
             /\ records' = records]_vars

\* C17: a call on a unit whose run-info file exists but cannot be parsed
\* ends with the error of json.load (JSONDecodeError for text that is not
\* JSON, UnicodeDecodeError for bytes that are not UTF-8, RecursionError for
\* text nested too deep, ValueError for an integer of too many digits) and
\* returns nothing; the action is not invoked and neither the run-info files
\* nor the filesystem change.
C17_CorruptRecordRaises ==
    [][(/\ last'.kind = "call"
        /\ records[last'.name].kind \notin {"absent", "json"})
          => /\ last'.raised =
                    CASE records[last'.name].kind = "corrupt" -> "JSONDecodeError"
                      [] records[last'.name].kind = "undecodable" -> "UnicodeDecodeError"
                      [] records[last'.name].kind = "too_deep" -> "RecursionError"
                      [] records[last'.name].kind = "too_long" -> "ValueError"
             /\ last'.invoked = 0
             /\ last'.exit = <<>>
             /\ last'.ret = <<>>
             /\ records' = records
             /\ fs' = fs]_vars

\* A call that met an unparsable run-info file, on a unit with a declared
\* input that is there: the file is still unparsable afterwards.
C17_Witness ==
    /\ last.kind = "call"
    /\ last.raised = "ValueError"
    /\ last.invoked = 0
    /\ records[last.name].kind = "too_long"
    /\ \E i \in 1..Len(last.inputs) : fs[last.inputs[i]] # Absent

\* C18: in every call of execute the action is invoked at most once, from
\* line 115 only, that is after the status was computed and its should_run
\* was true; a run-info file is written from line 116 only, that is after
\* the action of this call has returned (the action itself may remove
\* run-info files, it writes none); and a call that skips goes from the
\* evaluation straight to its return, with no invocation and no write.
C18_EvaluateRunSaveInOrder ==
    [][/\ last'.invoked > 0
          => last'.invoked = 1 /\ last'.status # "" /\ should_run(last'.status)
       /\ (last.kind \in InCall /\ last'.invoked # last.invoked)
          => /\ last.kind = "at_run"
             /\ last.invoked = 0
             /\ \A n \in Names : records'[n] \in {records[n], NoFile}
       /\ (/\ last'.kind \in InCall \cup {"returned", "raised"}
           /\ \E n \in Names : records'[n] \notin {records[n], NoFile})
          => /\ last.kind = "at_store"
             /\ last.invoked = 1
             /\ last.exit # <<>>
             /\ last'.invoked = 1
       /\ last'.kind = "at_skip"
          => /\ last.kind \notin InCall
             /\ ~should_run(last'.status)
             /\ last'.invoked = 0
             /\ records' = records
             /\ fs' = fs
       /\ (last'.kind = "returned" /\ ~should_run(last'.status))
          => /\ last.kind = "at_skip"
             /\ last'.invoked = 0
             /\ last'.ret = <<0>>
             /\ records' = records
             /\ fs' = fs]_vars

\* A call that went through the three steps: it found a changed file, ran
\* the action, wrote the record and returned the exit code.
C18_Witness ==
    /\ last.kind = "returned"
    /\ last.status = "FILE_CHANGED"
    /\ last.invoked = 1
    /\ last.ret = last.exit
    /\ IsFreshRecord(records[last.name], last.inputs, last.outputs, fs)

\* C19: after a call that ran the action, got a non-zero exit code and saved
\* the record, with the recorded files and the record left as they are, the
\* next call on the unit finds MATCH, does not invoke the action and returns
\* 0.
C19_FailedRunIsMasked ==
    [][(last'.kind = "call" /\ prior[last'.name] = "ran_failed")
          => /\ last'.status = "MATCH"
             /\ last'.invoked = 0
             /\ last'.exit = <<>>
             /\ last'.ret = <<0>>]_vars

\* The call that saved after a non-zero exit code, directly followed by the
\* call that returned 0 without invoking the action.
C19_Witness ==
    /\ last.kind = "call"
    /\ last.before = "ran_failed"
    /\ last.invoked = 0
    /\ last.ret = <<0>>
    /\ RecordedPaths(records[last.name]) # {}

\* The run-info files with those of the other names than n replaced by other.
OthersReplaced(n, other) ==
    [m \in Names |-> IF m = n THEN records[m] ELSE other]

\* C20 as stated: a call of execute on a unit leaves the run-info file of every other
\* name as it is, and what it does (the error of an unparsable file, the
\* status, whether the action is invoked) is the same whatever the run-info
\* files of the other names are: absent, unparsable, or any record.
C20_NamesAreIndependent ==
    [][last'.kind = "call"
          => /\ \A m \in Names \ {last'.name} : records'[m] = records[m]
             /\ \A other \in {NoFile} \cup UnparsableFiles
                                \cup {records[m] : m \in Names} :
                  LET recs == OthersReplaced(last'.name, other)
                      r == [name |-> last'.name, inputs |-> last'.inputs,
                            outputs |-> last'.outputs]
                  IN  IF load_raises(get_runnable_run_info_file(recs, r)) # ""
                      THEN /\ last'.raised = load_raises(get_runnable_run_info_file(recs, r))
                           /\ last'.invoked = 0
                      ELSE /\ last'.status # ""
                           /\ last'.status = previous_run_info_matches(fs, recs, r)
                           /\ last'.invoked = 1 <=> should_run(last'.status)]_vars
====
